---- MODULE Spec2Model ----
(***************************************************************************)
(* A model of beacon-go: the Query objects (input validation and rendering *)
(* of the WHERE predicate), the BigQuery backend that evaluates the        *)
(* rendered predicate, and the HTTP handlers that drive them.              *)
(*                                                                         *)
(* Strings are sequences of fragments (<<>> is the empty string, a quote   *)
(* character is a fragment of its own).  A rendered query is a sequence of *)
(* tokens, which the backend parses again before it evaluates it on the    *)
(* rows of the table.                                                      *)
(***************************************************************************)
EXTENDS Integers, Sequences, FiniteSets, TLC

(***************************************************************************)
(* Bounds of the model.                                                    *)
(***************************************************************************)
\* Largest value of the (scaled-down) signed integer type standing for int64.
MaxInt64 == 3
\* Largest start position of a table row; a row ends at most 2 later.
MaxPos == 1
\* Largest number of rows in the backend table.
MaxRows == 1

MinInt64 == -MaxInt64 - 1

Int64 == MinInt64..MaxInt64

\* Two's complement addition of the int64 type (Go wraps silently).
Add64(a, b) ==
  LET s == a + b
      w == 2 * (MaxInt64 + 1)
  IN  ((s - MinInt64) % w) + MinInt64

(***************************************************************************)
(* Optional integers (pointers to int64): nil, or a pointer to a value.    *)
(***************************************************************************)
Nil == [set |-> FALSE, v |-> 0]

Ptr(n) == [set |-> TRUE, v |-> n]

OptInt64 == {Nil} \cup {Ptr(n) : n \in Int64}

(***************************************************************************)
(* Errors: nil is the empty sequence, an error is its chain of messages    *)
(* (fmt.Errorf("ctx: %v", err) puts ctx in front of err's chain).          *)
(***************************************************************************)
NoError == <<>>

NewError(msg) == <<msg>>

Errorf(ctx, err) == <<ctx>> \o err

(***************************************************************************)
(* Tokens of a rendered query text.                                        *)
(***************************************************************************)
Sym(s) == [k |-> "sym", s |-> s, n |-> 0]

Num(n) == [k |-> "num", s |-> "", n |-> n]

Quote == Sym("'")

\* The text of a string value, fragment by fragment (%s).
Text(value) == [i \in 1..Len(value) |-> Sym(value[i])]

\* strings.Join(clauses, " AND ")
RECURSIVE Join(_)
Join(clauses) ==
  IF Len(clauses) = 0 THEN <<>>
  ELSE IF Len(clauses) = 1 THEN clauses[1]
  ELSE clauses[1] \o <<Sym("AND")>> \o Join(Tail(clauses))

(***************************************************************************)
(* The Query object.  One record type holds the fields of every variant:   *)
(* the single-coordinate variant uses Coord, the multi-mode variants use   *)
(* Start .. EndMax.                                                        *)
(***************************************************************************)
MkQuery(ref, allele, coord, start, end, smin, smax, emin, emax) ==
  [RefName |-> ref, Allele |-> allele, Coord |-> coord, Start |-> start,
   End |-> end, StartMin |-> smin, StartMax |-> smax, EndMin |-> emin,
   EndMax |-> emax]

\* fmt.Sprintf("%s='%s'", dbColumn, value): the value is pasted between quotes.
SprintfEq(dbColumn, value) == <<Sym(dbColumn), Sym("="), Quote>> \o Text(value) \o <<Quote>>

\* simpleClause: the clauses it adds (none for an empty value).
simpleClause(dbColumn, value) ==
  IF dbColumn /= "" /\ value /= <<>> THEN <<SprintfEq(dbColumn, value)>> ELSE <<>>

(***************************************************************************)
(* Single-coordinate variant (package variants, Coord; package query).     *)
(***************************************************************************)
\* A ValidateInput that takes a coordinate of 0 for an absent one.
ValidateInputCoord_ZeroIsAbsent(q) ==
  IF q.RefName = <<>> THEN NewError("missing chromosome name")
  ELSE IF q.Allele = <<>> THEN NewError("missing allele")
  ELSE IF ~q.Coord.set \/ q.Coord.v = 0 THEN NewError("missing coordinate")
  ELSE NoError

\* ValidateInput of the single-coordinate Query.
ValidateInputCoord(q) ==
  IF q.RefName = <<>> THEN NewError("missing chromosome name")
  ELSE IF q.Allele = <<>> THEN NewError("missing allele")
  ELSE IF ~q.Coord.set THEN NewError("missing coordinate")
  ELSE NoError

\* add("v.start <= %d AND %d < v.end", *q.Coord, *q.Coord+1)
coordClause(c) ==
  <<Sym("v.start"), Sym("<="), Num(c), Sym("AND"), Num(Add64(c, 1)), Sym("<"), Sym("v.end")>>

whereClauseCoord(q) ==
  Join(simpleClause("reference_name", q.RefName)
       \o simpleClause("reference_bases", q.Allele)
       \o (IF q.Coord.set THEN <<coordClause(q.Coord.v)>> ELSE <<>>))

(***************************************************************************)
(* Multi-mode variant with v.start / v.end columns (Start, End and the     *)
(* four range bounds; Execute creates its own client).                     *)
(***************************************************************************)
validateCoordinatesRange(q) ==
  LET precisePosition == q.Start.set /\ (q.End.set \/ q.Allele /= <<>>)
      imprecisePosition == q.StartMin.set /\ q.StartMax.set /\ q.EndMin.set /\ q.EndMax.set
  IN  IF precisePosition /\ imprecisePosition
        THEN NewError("please query either precise or imprecise position")
      ELSE IF precisePosition \/ imprecisePosition THEN NoError
      ELSE IF (q.Start.set /\ q.End.set) \/ q.StartMin.set \/ q.StartMax.set
              \/ q.EndMin.set \/ q.EndMax.set
        THEN NewError("restrictions not met for provided coordinates")
      ELSE NoError

\* A ValidateInput that tests the reference name twice and never the allele.
ValidateInputRange_NoAlleleCheck(q) ==
  IF q.RefName = <<>> THEN NewError("missing chromosome name")
  ELSE IF q.RefName = <<>> THEN NewError("missing allele")
  ELSE IF validateCoordinatesRange(q) /= NoError
    THEN Errorf("validating coordinates", validateCoordinatesRange(q))
  ELSE NoError

ValidateInputRange(q) ==
  IF q.RefName = <<>> THEN NewError("missing chromosome name")
  ELSE IF q.Allele = <<>> THEN NewError("missing allele")
  ELSE IF validateCoordinatesRange(q) /= NoError
    THEN Errorf("validating coordinates", validateCoordinatesRange(q))
  ELSE NoError

\* A rendering whose last range condition takes the bound of the start.
bqCoordinatesToWhereClause_EndMaxFromStartMax(q) ==
  (IF q.Start.set
     THEN IF q.End.set
            THEN <<(<<Sym("v.start"), Sym("="), Num(q.Start.v), Sym("AND"),
                     Num(q.End.v), Sym("="), Sym("v.end")>>)>>
            ELSE <<(<<Sym("v.start"), Sym("="), Num(q.Start.v)>>)>>
     ELSE <<>>)
  \o
  (IF q.StartMin.set /\ q.StartMax.set /\ q.EndMin.set /\ q.EndMax.set
     THEN <<(<<Num(q.StartMin.v), Sym("<="), Sym("v.start"), Sym("AND"),
               Sym("v.start"), Sym("<="), Num(q.StartMax.v), Sym("AND"),
               Num(q.EndMin.v), Sym("<="), Sym("v.end"), Sym("AND"),
               Sym("v.end"), Sym("<="), Num(q.StartMax.v)>>)>>
     ELSE <<>>)

\* A rendering that leaves End out of the precise condition.
bqCoordinatesToWhereClause_StartOnly(q) ==
  (IF q.Start.set
     THEN <<(<<Sym("v.start"), Sym("="), Num(q.Start.v)>>)>>
     ELSE <<>>)
  \o
  (IF q.StartMin.set /\ q.StartMax.set /\ q.EndMin.set /\ q.EndMax.set
     THEN <<(<<Num(q.StartMin.v), Sym("<="), Sym("v.start"), Sym("AND"),
               Sym("v.start"), Sym("<="), Num(q.StartMax.v), Sym("AND"),
               Num(q.EndMin.v), Sym("<="), Sym("v.end"), Sym("AND"),
               Sym("v.end"), Sym("<="), Num(q.EndMax.v)>>)>>
     ELSE <<>>)

bqCoordinatesToWhereClause(q) ==
  (IF q.Start.set
     THEN IF q.End.set
            THEN <<(<<Sym("v.start"), Sym("="), Num(q.Start.v), Sym("AND"),
                     Num(q.End.v), Sym("="), Sym("v.end")>>)>>
            ELSE <<(<<Sym("v.start"), Sym("="), Num(q.Start.v)>>)>>
     ELSE <<>>)
  \o
  (IF q.StartMin.set /\ q.StartMax.set /\ q.EndMin.set /\ q.EndMax.set
     THEN <<(<<Num(q.StartMin.v), Sym("<="), Sym("v.start"), Sym("AND"),
               Sym("v.start"), Sym("<="), Num(q.StartMax.v), Sym("AND"),
               Num(q.EndMin.v), Sym("<="), Sym("v.end"), Sym("AND"),
               Sym("v.end"), Sym("<="), Num(q.EndMax.v)>>)>>
     ELSE <<>>)

\* A whereClause that adds the allele before the reference name.
whereClauseRange_AlleleFirst(q) ==
  Join(simpleClause("reference_bases", q.Allele)
       \o simpleClause("reference_name", q.RefName)
       \o bqCoordinatesToWhereClause(q))

\* whereClause of the multi-mode Query.
whereClauseRange(q) ==
  Join(simpleClause("reference_name", q.RefName)
       \o simpleClause("reference_bases", q.Allele)
       \o bqCoordinatesToWhereClause(q))

(***************************************************************************)
(* Multi-mode variant of package variants with start_position columns:     *)
(* its validation.                                                         *)
(***************************************************************************)
validateCoordinatesPos(q) ==
  IF q.Start.set /\ (q.End.set \/ q.Allele /= <<>>)
     /\ ~q.StartMin.set /\ ~q.StartMax.set /\ ~q.EndMin.set /\ ~q.EndMax.set
    THEN NoError
  ELSE IF q.StartMin.set /\ q.StartMax.set /\ q.EndMin.set /\ q.EndMax.set
          /\ ~q.Start.set /\ ~q.End.set
    THEN NoError
  ELSE NewError("an unusable combination of coordinate parameters was specified")

ValidateInputPos(q) ==
  IF q.RefName = <<>> THEN NewError("missing chromosome name")
  ELSE IF q.Allele = <<>> THEN NewError("missing allele")
  ELSE IF validateCoordinatesPos(q) /= NoError
    THEN Errorf("validating coordinates", validateCoordinatesPos(q))
  ELSE NoError

\* The variants of the Query object, and the dispatch on the variant.
\* The addresses the non-nil pointers of a Query may have: fmt prints a
\* pointer handed to %d or %v as its address, which the allocator chooses.
Addresses == 1..MaxInt64

PointerFields == {"Start", "End", "StartMin", "StartMax", "EndMin", "EndMax"}

AddressMaps(q) ==
  {a \in [PointerFields -> {0} \cup Addresses] :
     \A f \in PointerFields : a[f] = 0 <=> ~q[f].set}

\* %v of a pointer: its address in hexadecimal notation.
Hex(n) == [k |-> "hex", s |-> "", n |-> n]

\* simpleClause of the start_position variant for a pointer to int64:
\* add("%s=%d", dbColumn, value) with the pointer itself as the argument.
simpleClausePtr(dbColumn, value, address) ==
  IF value.set THEN <<(<<Sym(dbColumn), Sym("="), Num(address)>>)>> ELSE <<>>

\* whereClause of the start_position variant; at holds the address of each
\* pointer.  Every bound is formatted from the pointer, "%v.start_position
\* <= %d" has one argument for two verbs, and the end_position bound is
\* given q.StartMax.
whereClausePos(q, at) ==
  Join(simpleClause("reference_name", q.RefName)
       \o simpleClause("reference_bases", q.Allele)
       \o simpleClausePtr("start_position", q.Start, at["Start"])
       \o simpleClausePtr("end_position", q.End, at["End"])
       \o (IF q.StartMin.set
             THEN <<(<<Num(at["StartMin"]), Sym("<="), Sym("v.start_position")>>)>>
             ELSE <<>>)
       \o (IF q.StartMax.set
             THEN <<(<<Hex(at["StartMax"]), Sym(".start_position"), Sym("<="),
                       Sym("%!d(MISSING)")>>)>>
             ELSE <<>>)
       \o (IF q.EndMin.set
             THEN <<(<<Num(at["EndMin"]), Sym("<="), Sym("v.end_position")>>)>>
             ELSE <<>>)
       \o (IF q.EndMax.set
             THEN <<(<<Sym("v.end_position"), Sym("<="), Num(at["StartMax"])>>)>>
             ELSE <<>>))

ValidateInput(variant, q) ==
  CASE variant = "coord" -> ValidateInputCoord(q)
    [] variant = "range" -> ValidateInputRange(q)
    [] variant = "pos" -> ValidateInputPos(q)

whereClause(variant, q) ==
  CASE variant = "coord" -> whereClauseCoord(q)
    [] variant = "range" -> whereClauseRange(q)

(***************************************************************************)
(* The backend (BigQuery): it parses the WHERE text it is sent and         *)
(* evaluates it on every row of the table.  A row has the columns          *)
(* reference_name, reference_bases (strings), start and end (integers).    *)
(***************************************************************************)
IntLit(n) == [t |-> "int", n |-> n, s |-> <<>>, c |-> ""]

StrLit(s) == [t |-> "str", n |-> 0, s |-> s, c |-> ""]

Col(c) == [t |-> "col", n |-> 0, s |-> <<>>, c |-> c]

StringColumns == {"reference_name", "reference_bases"}

StartColumns == {"v.start", "start_position", "v.start_position"}

EndColumns == {"v.end", "end_position", "v.end_position"}

IntColumns == StartColumns \cup EndColumns

CompareOps == {"=", "<=", "<"}

ParseFail == [ok |-> FALSE]

\* The text of one token inside a string literal.
TokenText(tok) == IF tok.k = "num" THEN ToString(tok.n) ELSE tok.s

\* The position of the quote that closes the literal opened at i, or 0.
ClosingQuote(toks, i) ==
  LET js == {j \in (i + 1)..Len(toks) : toks[j] = Quote}
  IN  IF js = {} THEN 0 ELSE CHOOSE j \in js : \A k \in js : j <= k

ParseOperand(toks, i) ==
  IF i > Len(toks) THEN ParseFail
  ELSE IF toks[i].k = "num" THEN [ok |-> TRUE, v |-> IntLit(toks[i].n), next |-> i + 1]
  ELSE IF toks[i] = Quote
    THEN LET j == ClosingQuote(toks, i)
         IN  IF j = 0 THEN ParseFail
             ELSE [ok |-> TRUE,
                   v |-> StrLit([k \in 1..(j - i - 1) |-> TokenText(toks[i + k])]),
                   next |-> j + 1]
  ELSE IF toks[i].s \in StringColumns \cup IntColumns
    THEN [ok |-> TRUE, v |-> Col(toks[i].s), next |-> i + 1]
  ELSE ParseFail

TypeOf(operand) ==
  IF operand.t = "col"
    THEN (IF operand.c \in IntColumns THEN "int" ELSE "str")
    ELSE operand.t

\* One comparison: operand, operator, operand, of one type.
ParseCond(toks, i) ==
  LET lhs == ParseOperand(toks, i)
  IN  IF ~lhs.ok THEN ParseFail
      ELSE IF lhs.next > Len(toks) THEN ParseFail
      ELSE IF ~(toks[lhs.next].k = "sym" /\ toks[lhs.next].s \in CompareOps) THEN ParseFail
      ELSE LET rhs == ParseOperand(toks, lhs.next + 1)
           IN  IF ~rhs.ok THEN ParseFail
               ELSE IF TypeOf(lhs.v) /= TypeOf(rhs.v) THEN ParseFail
               ELSE [ok |-> TRUE,
                     cond |-> [lhs |-> lhs.v, op |-> toks[lhs.next].s, rhs |-> rhs.v],
                     next |-> rhs.next]

\* A conjunction of comparisons, from position i to the end of the text.
RECURSIVE ParseWhere(_, _)
ParseWhere(toks, i) ==
  LET c == ParseCond(toks, i)
  IN  IF ~c.ok THEN ParseFail
      ELSE IF c.next > Len(toks) THEN [ok |-> TRUE, conds |-> <<c.cond>>]
      ELSE IF toks[c.next] /= Sym("AND") THEN ParseFail
      ELSE LET rest == ParseWhere(toks, c.next + 1)
           IN  IF rest.ok THEN [ok |-> TRUE, conds |-> <<c.cond>> \o rest.conds]
               ELSE ParseFail

IntValue(operand, row) ==
  IF operand.t = "int" THEN operand.n
  ELSE IF operand.c \in StartColumns THEN row.start ELSE row.end

StrValue(operand, row) ==
  IF operand.t = "str" THEN operand.s
  ELSE IF operand.c = "reference_name" THEN row.reference_name ELSE row.reference_bases

CondHolds(cond, row) ==
  IF TypeOf(cond.lhs) = "int"
    THEN LET a == IntValue(cond.lhs, row)
             b == IntValue(cond.rhs, row)
         IN  CASE cond.op = "=" -> a = b
               [] cond.op = "<=" -> a <= b
               [] cond.op = "<" -> a < b
    ELSE StrValue(cond.lhs, row) = StrValue(cond.rhs, row) /\ cond.op = "="

\* Whether a row satisfies a parsed WHERE predicate.
RowMatches(conds, row) == \A i \in 1..Len(conds) : CondHolds(conds[i], row)

\* SELECT count(v.reference_name) as count FROM table as v WHERE where LIMIT 1:
\* the statement is rejected when its WHERE text does not parse.
RunQuery(where, rows) ==
  LET p == ParseWhere(where, 1)
  IN  IF ~p.ok THEN [ok |-> FALSE, count |-> 0]
      ELSE [ok |-> TRUE, count |-> Cardinality({r \in rows : RowMatches(p.conds, r)})]

(***************************************************************************)
(* Input domains.                                                          *)
(***************************************************************************)
\* A reference name that holds quote characters: chr17' AND 'A'='A
QuotedName == <<"chr17", "'", "AND", "'", "A", "'", "=", "'", "A">>

RefNames == {<<>>, <<"chr17">>, <<"chr1">>, QuotedName}

Alleles == {<<>>, <<"A">>, <<"T">>}

\* Values of the fields of a multi-mode Query.
OptPos == {Nil} \cup {Ptr(n) : n \in 0..MaxPos}

QueriesCoord ==
  {MkQuery(r, a, c, Nil, Nil, Nil, Nil, Nil, Nil) :
     r \in RefNames, a \in Alleles, c \in OptInt64}

QueriesMulti ==
  {MkQuery(r, a, Nil, s, e, smin, smax, emin, emax) :
     r \in {<<>>, <<"chr17">>}, a \in {<<>>, <<"A">>}, s \in OptPos, e \in OptPos,
     smin \in OptPos, smax \in OptPos, emin \in OptPos, emax \in OptPos}

Queries(v) == IF v = "coord" THEN QueriesCoord ELSE QueriesMulti

\* The rows a table may hold: a row covers one or two positions.
Rows ==
  {[reference_name |-> <<"chr17">>, reference_bases |-> b, start |-> s, end |-> s + l] :
     b \in {<<"A">>, <<"T">>}, s \in 0..MaxPos, l \in 1..2}

(***************************************************************************)
(* HTTP requests.  An integer parameter arrives as text: absent or empty,  *)
(* the decimal text of a number, or something that is no number.           *)
(***************************************************************************)
Empty == [k |-> "empty", n |-> 0]

Bad == [k |-> "bad", n |-> 0]

IntText(n) == [k |-> "int", n |-> n]

MkRequest(method, chromosome, allele, coordinate, start, end, smin, smax, emin, emax, bodyOK, auth) ==
  [Method |-> method, chromosome |-> chromosome, allele |-> allele,
   coordinate |-> coordinate, start |-> start, end |-> end, startMin |-> smin,
   startMax |-> smax, endMin |-> emin, endMax |-> emax, bodyOK |-> bodyOK,
   Authorization |-> auth]

NoRequest == MkRequest("", <<>>, <<>>, Empty, Empty, Empty, Empty, Empty, Empty, Empty, TRUE, <<>>)

NoQuery == MkQuery(<<>>, <<>>, Nil, Nil, Nil, Nil, Nil, Nil, Nil)

VARIABLES
  pc,        \* the position of the running operation
  variant,   \* the variant of the Query object in use
  query,     \* the Query
  verr,      \* what ValidateInput returned
  where,     \* the rendered WHERE text
  probe,     \* the row a rendered Query was tried on, and the outcome
  handler,   \* the request handler the server runs
  authMode,  \* Server.AuthMode
  table,     \* the rows of the backend table
  req,       \* the request being handled
  client,    \* the backend client of the request: "none" or "open"
  it,        \* the row count the backend holds ready for it.Next
  env,       \* the outcome of each backend step of the request
  ret,       \* what Execute returned
  resp,      \* the response written
  hist,      \* the calls made for the request, in order
  rend,      \* the renderings of the Query: the pointers, the Query, the outputs
  config     \* the configuration of the process: project and table

qvars == <<pc, variant, query, verr, where, probe>>

hvars == <<handler, authMode, table, req, client, it, env, ret, resp, hist>>

\* The state of the handler that asks every DataSource concurrently.
VARIABLES
  fpc,       \* the position of the handler
  freq,      \* the form values of its request
  search,    \* the variantSearch value every goroutine is handed a pointer to
  serr,      \* the handler's err variable, which the goroutines assign too
  g,         \* per DataSource, the goroutine started for it
  wg,        \* the counter of the WaitGroup
  replies,   \* the replies channel: "none", "open" or "closed"
  cpc,       \* the goroutine that waits for the WaitGroup and closes replies
  respExists,  \* resp.Exists of the handler
  fresp,     \* the response written
  flog,      \* the failures logged, as (DataSource, error) pairs
  keyCache   \* keyCache.cache: the key file names holding a cached key

svars == <<pc, variant, query, verr, where, probe, handler, authMode, table, req,
           client, it, env, ret, resp, hist, rend, config>>

fvars == <<fpc, freq, search, serr, g, wg, replies, cpc, respExists, fresp, flog, keyCache>>

\* The state of the wrapper that Export puts around About and Query.
VARIABLES
  route,     \* the pattern the request was routed by
  origin,    \* the Origin header of the request
  header,    \* the Access-Control headers of the response
  invoked    \* how many times the wrapped handler was called for the request

cvars == <<route, origin, header, invoked>>

vars == <<svars, fvars, cvars>>

NoEnv == [client |-> "none", query |-> "none", next |-> "none", count |-> 0]

NoRet == [set |-> FALSE, value |-> FALSE, err |-> NoError]

NoResp == [set |-> FALSE, code |-> 0, exists |-> FALSE, body |-> <<>>]

\* A process started with its project and its table set.
Configured == [projectID |-> <<"project">>, tableId |-> <<"table">>]

\* No rendering was made.
NoRend == [at |-> [f \in PointerFields |-> 0], q |-> NoQuery, out |-> <<>>]

NoProbe == [set |-> FALSE, row |-> CHOOSE r \in Rows : TRUE, ok |-> FALSE, count |-> 0]

\* The list of DataSources to search.
DataSources ==
  << [URL |-> "https://www.googleapis.com/genomics/v1beta2/variants/search?",
      APIKeyFileName |-> "google_api_key.txt",
      VariantSetIds |-> <<"10473108253681171589">>],
     [URL |-> "https://www.googleapis.com/genomics/v1beta2/variants/search?",
      APIKeyFileName |-> "google_api_key.txt",
      VariantSetIds |-> <<"3049512673186936334">>] >>

Sources == 1..Len(DataSources)

NoFormRequest == [chromosome |-> <<>>, coordinate |-> Empty, allele |-> <<>>]

\* The zero variantSearch.
NoSearch ==
  [VariantSetIds |-> <<>>, ReferenceName |-> <<>>, Start |-> Empty, End |-> Empty,
   Allele |-> <<>>]

\* A goroutine that was not started: its position, the variantSetIds of the
\* body it marshalled, the key it got, the variants it was answered, whether
\* one of them is the variant searched, and what
\* QueryDataSource returned to it.
NoGoroutine ==
  [pc |-> "none", body |-> <<>>, key |-> <<>>, results |-> {}, found |-> FALSE,
   ret |-> NoError]

\* No Access-Control header is set.
NoHeader == [AllowOrigin |-> <<>>, AllowMethods |-> <<>>, AllowHeaders |-> <<>>]

\* No request went through the wrapper.
CorsIdle ==
  /\ route = ""
  /\ origin = <<>>
  /\ header = NoHeader
  /\ invoked = 0

\* No request is in the handler, and no key is cached.
FanIdle ==
  /\ fpc = "idle"
  /\ freq = NoFormRequest
  /\ search = NoSearch
  /\ serr = NoError
  /\ g = [s \in Sources |-> NoGoroutine]
  /\ wg = 0
  /\ replies = "none"
  /\ cpc = "none"
  /\ respExists = FALSE
  /\ fresp = NoResp
  /\ flog = {}
  /\ keyCache = {}

(***************************************************************************)
(* The Query object on its own: a Query of one variant is validated, and   *)
(* an accepted Query is rendered and evaluated on a row.                   *)
(***************************************************************************)
QueryVariants == {"coord", "range", "pos"}

InitQuery ==
  /\ pc = "new"
  /\ variant \in QueryVariants
  /\ query \in Queries(variant)
  /\ verr = NoError
  /\ where = <<>>
  /\ probe = NoProbe
  /\ handler = "none"
  /\ authMode = "ServiceAuth"
  /\ table = {}
  /\ req = NoRequest
  /\ client = "none"
  /\ it = 0
  /\ env = NoEnv
  /\ ret = NoRet
  /\ resp = NoResp
  /\ hist = <<>>
  /\ rend = NoRend
  /\ config = Configured
  /\ FanIdle
  /\ CorsIdle

QValidate ==
  /\ pc = "new"
  /\ verr' = ValidateInput(variant, query)
  /\ pc' = "validated"
  /\ UNCHANGED <<variant, query, where, probe>>
  /\ UNCHANGED hvars
  /\ UNCHANGED fvars
  /\ UNCHANGED cvars
  /\ UNCHANGED config
  /\ UNCHANGED rend

\* q.whereClause() of the Query whose pointers have the addresses at.
Render(v, q, at) == IF v = "pos" THEN whereClausePos(q, at) ELSE whereClause(v, q)

\* whereClause is called for the first time.  Only the start_position
\* variant formats the pointers themselves, so only there are addresses drawn.
QRender ==
  /\ pc = "validated"
  /\ verr = NoError
  /\ \E at \in (IF variant = "pos" THEN AddressMaps(query) ELSE {NoRend.at}) :
       /\ where' = Render(variant, query, at)
       /\ rend' = [at |-> at, q |-> query, out |-> <<where'>>]
  /\ pc' = "rendered"
  /\ UNCHANGED <<variant, query, verr, probe>>
  /\ UNCHANGED hvars
  /\ UNCHANGED fvars
  /\ UNCHANGED cvars
  /\ UNCHANGED config

\* whereClause is called again on the same Query.
QRenderAgain ==
  /\ pc = "rendered"
  /\ Len(rend.out) = 1
  /\ where' = Render(variant, query, rend.at)
  /\ rend' = [rend EXCEPT !.out = Append(rend.out, where')]
  /\ UNCHANGED <<pc, variant, query, verr, probe>>
  /\ UNCHANGED hvars
  /\ UNCHANGED fvars
  /\ UNCHANGED cvars
  /\ UNCHANGED config

QMatch ==
  /\ pc = "rendered"
  /\ \E r \in Rows :
       LET res == RunQuery(where, {r})
       IN  probe' = [set |-> TRUE, row |-> r, ok |-> res.ok, count |-> res.count]
  /\ pc' = "matched"
  /\ UNCHANGED <<variant, query, verr, where>>
  /\ UNCHANGED hvars
  /\ UNCHANGED fvars
  /\ UNCHANGED cvars
  /\ UNCHANGED config
  /\ UNCHANGED rend

NextQuery == QValidate \/ QRender \/ QRenderAgain \/ QMatch

SpecQuery == InitQuery /\ [][NextQuery]_vars

(***************************************************************************)
(* Properties of the Query object (checked under SpecQuery).               *)
(***************************************************************************)
MissingField == {NewError("missing chromosome name"), NewError("missing allele")}

\* The coordinate errors of the multi-mode variants are wrapped by ValidateInput.
InvalidCoordinateSpec(err) == Len(err) >= 1 /\ err[1] = "validating coordinates"

PreciseFieldSet(q) == q.Start.set \/ q.End.set

ImpreciseFieldSet(q) == q.StartMin.set \/ q.StartMax.set \/ q.EndMin.set \/ q.EndMax.set

ImpreciseComplete(q) == q.StartMin.set /\ q.StartMax.set /\ q.EndMin.set /\ q.EndMax.set

\* C1: for a single-coordinate Query with coordinate C, the rendered predicate
\* matches a row of the Query's reference name and allele exactly when
\* row.start <= C < row.end (so the row start = C, end = C + 1 matches).
C1_HalfOpenContainment ==
  (/\ pc = "matched"
   /\ variant = "coord"
   /\ query.Coord.set
   /\ probe.row.reference_name = query.RefName
   /\ probe.row.reference_bases = query.Allele)
  => /\ probe.ok
     /\ probe.count > 0 <=>
          (probe.row.start <= query.Coord.v /\ query.Coord.v < probe.row.end)

\* C3: a Query whose reference name or allele is empty fails validation with a
\* missing-field error, whatever coordinate fields it sets, in every variant.
C3_MissingFieldRejected ==
  (pc /= "new" /\ (query.RefName = <<>> \/ query.Allele = <<>>))
  => verr \in MissingField

\* C3 witness: a multi-mode Query without allele that mixes precise and
\* imprecise fields has been rejected for the missing allele.
C3_Witness ==
  /\ pc = "validated"
  /\ variant = "range"
  /\ query.RefName /= <<>>
  /\ query.Allele = <<>>
  /\ query.Start.set
  /\ query.EndMax.set
  /\ verr = NewError("missing allele")

\* C4: a multi-mode Query with reference name and allele that sets a precise
\* field (start or end) together with any imprecise field (startMin, startMax,
\* endMin, endMax) fails validation with an invalid-coordinate error.
C4_MixedModesRejected ==
  (/\ pc /= "new"
   /\ variant \in {"range", "pos"}
   /\ query.RefName /= <<>>
   /\ query.Allele /= <<>>
   /\ PreciseFieldSet(query)
   /\ ImpreciseFieldSet(query))
  => InvalidCoordinateSpec(verr)

\* C5: a multi-mode Query with reference name and allele that has no start,
\* not all four range bounds, but some coordinate field set (only end, say)
\* fails validation with an invalid-coordinate error.
C5_PartialCoordinatesRejected ==
  (/\ pc /= "new"
   /\ variant \in {"range", "pos"}
   /\ query.RefName /= <<>>
   /\ query.Allele /= <<>>
   /\ ~query.Start.set
   /\ ~ImpreciseComplete(query)
   /\ (query.End.set \/ ImpreciseFieldSet(query)))
  => InvalidCoordinateSpec(verr)

(***************************************************************************)
(* The request handlers Server.Query.                                      *)
(*   "Server":      parseInput of the single-coordinate Query, then        *)
(*                  ValidateInput, newBQClient and Execute(ctx, client).   *)
(*   "ServerRange": parseInput of the multi-mode Query, ValidateInput and  *)
(*                  an Execute that creates the backend client itself.     *)
(***************************************************************************)
StatusOK == 200

StatusBadRequest == 400

StatusInternalServerError == 500

Handlers == {"Server", "ServerRange"}

VariantOf(h) == IF h = "Server" THEN "coord" ELSE "range"

\* strconv.ParseInt(str, 10, 64): the value, or an error when the text is no
\* number or the number does not fit.
ParseInt(fv) ==
  IF fv.k = "int" /\ fv.n \in Int64 THEN [err |-> NoError, v |-> fv.n]
  ELSE IF fv.k = "int" THEN [err |-> NewError("value out of range"), v |-> 0]
  ELSE [err |-> NewError("invalid syntax"), v |-> 0]

getFormValueInt(fv) ==
  IF fv.k = "empty" THEN [err |-> NoError, v |-> Nil]
  ELSE IF ParseInt(fv).err /= NoError
    THEN [err |-> Errorf("parsing value as integer", ParseInt(fv).err), v |-> Nil]
  ELSE [err |-> NoError, v |-> Ptr(ParseInt(fv).v)]

\* json.Unmarshal of one optional integer member of the body.
jsonInt(fv) == getFormValueInt(fv).v

jsonIntOK(fv) == getFormValueInt(fv).err = NoError

MethodNotSupported == NewError("HTTP method not supported")

\* parseInput of the single-coordinate handler.
parseInputCoord(r) ==
  CASE r.Method = "GET" ->
         IF getFormValueInt(r.coordinate).err /= NoError
           THEN [err |-> Errorf("parsing coordinate", getFormValueInt(r.coordinate).err),
                 query |-> NoQuery]
           ELSE [err |-> NoError,
                 query |-> MkQuery(r.chromosome, r.allele, getFormValueInt(r.coordinate).v,
                                   Nil, Nil, Nil, Nil, Nil, Nil)]
    [] r.Method = "POST" ->
         IF ~r.bodyOK \/ ~jsonIntOK(r.coordinate)
           THEN [err |-> NewError("decoding request body"), query |-> NoQuery]
           ELSE [err |-> NoError,
                 query |-> MkQuery(r.chromosome, r.allele, jsonInt(r.coordinate),
                                   Nil, Nil, Nil, Nil, Nil, Nil)]
    [] OTHER -> [err |-> MethodNotSupported, query |-> NoQuery]

CoordinateFields == <<"start", "end", "startMin", "startMax", "endMin", "endMax">>

\* parseFormCoordinates: the fields are read in order, the first that does
\* not parse ends it with its error.
parseFormCoordinates(r) ==
  LET bad == {i \in 1..Len(CoordinateFields) :
                getFormValueInt(r[CoordinateFields[i]]).err /= NoError}
      first == CHOOSE i \in bad : \A j \in bad : i <= j
  IN  IF bad = {} THEN NoError
      ELSE Errorf("parsing " \o CoordinateFields[first],
                  getFormValueInt(r[CoordinateFields[first]]).err)

\* parseInput of the multi-mode handler.
parseInputRange(r) ==
  LET q == MkQuery(r.chromosome, r.allele, Nil, jsonInt(r.start), jsonInt(r.end),
                   jsonInt(r.startMin), jsonInt(r.startMax), jsonInt(r.endMin),
                   jsonInt(r.endMax))
  IN  CASE r.Method = "GET" ->
             IF parseFormCoordinates(r) /= NoError
               THEN [err |-> Errorf("parsing referenceBases", parseFormCoordinates(r)),
                     query |-> NoQuery]
               ELSE [err |-> NoError, query |-> q]
        [] r.Method = "POST" ->
             IF ~r.bodyOK \/ \E i \in 1..Len(CoordinateFields) : ~jsonIntOK(r[CoordinateFields[i]])
               THEN [err |-> NewError("decoding request body"), query |-> NoQuery]
               ELSE [err |-> NoError, query |-> q]
        [] OTHER -> [err |-> MethodNotSupported, query |-> NoQuery]

parseInput(h, r) == IF h = "Server" THEN parseInputCoord(r) ELSE parseInputRange(r)

\* http.Error(w, text, code)
HttpError(text, code) == [set |-> TRUE, code |-> code, exists |-> FALSE, body |-> text]

\* writeResponse(w, exists): the XML answer, with the default status.
writeResponse(exists) == [set |-> TRUE, code |-> StatusOK, exists |-> exists, body |-> <<>>]

\* The error a failed call to the backend library returns.
BackendError == NewError("backend error")

\* A Server.Query that reports a validation error but does not return on it.
QueryEntry_NoReturnOnInvalid(h, r) ==
  LET p == parseInput(h, r)
      e == ValidateInput(VariantOf(h), p.query)
  IN  IF p.err /= NoError
        THEN [pc |-> "done", query |-> NoQuery, verr |-> NoError,
              resp |-> HttpError(Errorf("parsing input", p.err), StatusBadRequest),
              hist |-> <<"parseInput failed">>]
      ELSE IF e /= NoError
        THEN [pc |-> "newclient", query |-> p.query, verr |-> e,
              resp |-> HttpError(Errorf("validating input", e), StatusBadRequest),
              hist |-> <<"parseInput ok", "ValidateInput failed">>]
      ELSE [pc |-> "newclient", query |-> p.query, verr |-> NoError, resp |-> NoResp,
            hist |-> <<"parseInput ok", "ValidateInput ok">>]

\* Server.Query up to its first call to the backend: parseInput, then
\* ValidateInput; either ends the request with StatusBadRequest.
QueryEntry(h, r) ==
  LET p == parseInput(h, r)
      e == ValidateInput(VariantOf(h), p.query)
  IN  IF p.err /= NoError
        THEN [pc |-> "done", query |-> NoQuery, verr |-> NoError,
              resp |-> HttpError(Errorf("parsing input", p.err), StatusBadRequest),
              hist |-> <<"parseInput failed">>]
      ELSE IF e /= NoError
        THEN [pc |-> "done", query |-> p.query, verr |-> e,
              resp |-> HttpError(Errorf("validating input", e), StatusBadRequest),
              hist |-> <<"parseInput ok", "ValidateInput failed">>]
      ELSE [pc |-> "newclient", query |-> p.query, verr |-> NoError, resp |-> NoResp,
            hist |-> <<"parseInput ok", "ValidateInput ok">>]

\* The positions of the spaces of a header text, in order.
SpacesOf(h) ==
  LET at == {i \in 1..Len(h) : h[i] = " "}
  IN  [k \in 1..Cardinality(at) |->
         CHOOSE i \in at : Cardinality({j \in at : j < i}) = k - 1]

\* strings.Split(h, " "): the fields between the spaces, empty ones included.
Split(h) ==
  LET sp == <<0>> \o SpacesOf(h) \o <<Len(h) + 1>>
  IN  [k \in 1..(Len(sp) - 1) |-> SubSeq(h, sp[k] + 1, sp[k + 1] - 1)]

\* newClientFromBearerToken: the Authorization header is split at its spaces;
\* created tells whether bigquery.NewClient (which succeeds or not) was called.
newClientFromBearerToken(r, created) ==
  IF Len(Split(r.Authorization)) /= 2 \/ Split(r.Authorization)[1] /= <<"Bearer">>
    THEN [err |-> NewError("missing or invalid authentication token"), called |-> FALSE]
  ELSE IF ~created
    THEN [err |-> Errorf("creating bigquery client", BackendError), called |-> TRUE]
  ELSE [err |-> NoError, called |-> TRUE]

newBQClient(mode, r, created) ==
  CASE mode = "ServiceAuth" ->
         [err |-> IF created THEN NoError ELSE BackendError, called |-> TRUE]
    [] mode = "UserAuth" -> newClientFromBearerToken(r, created)

\* An Execute that drops the error of it.Next and answers from the zero count.
Execute_SwallowsReadError(clientOK, readOK, nextOK, count) ==
  IF ~clientOK
    THEN [set |-> TRUE, value |-> FALSE, err |-> Errorf("creating bigquery client", BackendError)]
  ELSE IF ~readOK
    THEN [set |-> TRUE, value |-> FALSE, err |-> Errorf("querying database", BackendError)]
  ELSE IF ~nextOK
    THEN [set |-> TRUE, value |-> FALSE, err |-> NoError]
  ELSE [set |-> TRUE, value |-> count > 0, err |-> NoError]

\* What Execute returns, from the outcome of its steps: the client it creates
\* (or is handed), client.Query(query).Read, it.Next, and the count read.
Execute(clientOK, readOK, nextOK, count) ==
  IF ~clientOK
    THEN [set |-> TRUE, value |-> FALSE, err |-> Errorf("creating bigquery client", BackendError)]
  ELSE IF ~readOK
    THEN [set |-> TRUE, value |-> FALSE, err |-> Errorf("querying database", BackendError)]
  ELSE IF ~nextOK
    THEN [set |-> TRUE, value |-> FALSE, err |-> Errorf("reading query result", BackendError)]
  ELSE [set |-> TRUE, value |-> count > 0, err |-> NoError]

\* Server.Query after Execute has returned.
QueryResponse(r) ==
  IF r.err /= NoError
    THEN HttpError(Errorf("computing result", r.err), StatusInternalServerError)
    ELSE writeResponse(r.value)

(***************************************************************************)
(* Requests and tables of the handler specification.                       *)
(***************************************************************************)
Methods == {"GET", "POST", "PUT"}

\* The header is read in UserAuth mode only.
AuthHeaders(mode) ==
  IF mode = "UserAuth"
    THEN {<<>>, <<"Bearer", " ", "token">>, <<"Basic", " ", "token">>,
          <<"Bearer", " ">>, <<"Bearer">>, <<"Bearer", " ", "token", " ", "x">>}
    ELSE {<<>>}

CoordTexts == {Empty, Bad} \cup {IntText(n) : n \in 0..(MaxInt64 + 1)}

RequestsCoord(mode) ==
  {MkRequest(m, c, a, x, Empty, Empty, Empty, Empty, Empty, Empty, b, auth) :
     m \in Methods, c \in {<<>>, <<"chr17">>}, a \in Alleles, x \in CoordTexts,
     b \in BOOLEAN, auth \in AuthHeaders(mode)}

RequestsRange ==
  {MkRequest(m, c, a, Empty, s, e, smin, smax, emin, emax, b, <<>>) :
     m \in Methods, c \in {<<>>, <<"chr17">>}, a \in {<<>>, <<"A">>},
     s \in {Empty, Bad} \cup {IntText(n) : n \in 0..MaxPos},
     e \in {Empty, IntText(MaxPos + 1)}, smin \in {Empty, IntText(0)},
     smax \in {Empty, IntText(MaxPos)}, emin \in {Empty, IntText(1)},
     emax \in {Empty, IntText(MaxPos + 1)}, b \in BOOLEAN}

\* A body that does not decode can only come with a POST.
Requests(h, mode) ==
  {r \in (IF h = "Server" THEN RequestsCoord(mode) ELSE RequestsRange) :
     r.bodyOK \/ r.Method = "POST"}

Tables == {t \in SUBSET Rows : Cardinality(t) <= MaxRows}

Init ==
  /\ handler \in Handlers
  /\ authMode \in (IF handler = "Server" THEN {"ServiceAuth", "UserAuth"} ELSE {"ServiceAuth"})
  /\ variant = VariantOf(handler)
  /\ pc = "idle"
  /\ query = NoQuery
  /\ verr = NoError
  /\ where = <<>>
  /\ probe = NoProbe
  /\ table = {}
  /\ req = NoRequest
  /\ client = "none"
  /\ it = 0
  /\ env = NoEnv
  /\ ret = NoRet
  /\ resp = NoResp
  /\ hist = <<>>
  /\ rend = NoRend
  /\ config = Configured
  /\ FanIdle
  /\ CorsIdle

\* A request arrives: Server.Query runs up to its first backend call.
QueryBegin ==
  /\ pc = "idle"
  /\ \E r \in Requests(handler, authMode) :
       LET o == QueryEntry(handler, r)
       IN  /\ req' = r
           /\ pc' = o.pc
           /\ query' = o.query
           /\ verr' = o.verr
           /\ resp' = o.resp
           /\ hist' = o.hist
  /\ UNCHANGED <<variant, where, probe, handler, authMode, table, client, it, env, ret>>
  /\ UNCHANGED fvars
  /\ UNCHANGED cvars
  /\ UNCHANGED config
  /\ UNCHANGED rend

\* "Server": api.newBQClient(r, api.ProjectID); on success Execute starts and
\* renders its query.
NewBQClient ==
  /\ pc = "newclient"
  /\ handler \in {"Server", "ServerCORS"}
  /\ \E created \in BOOLEAN :
       LET c == newBQClient(authMode, req, created)
       IN  /\ hist' = IF c.called THEN Append(hist, "NewClient") ELSE hist
           /\ env' = [env EXCEPT !.client = IF ~c.called THEN "unauthorized"
                                            ELSE IF created THEN "ok" ELSE "failed"]
           /\ IF c.err /= NoError
                THEN /\ resp' = HttpError(Errorf("creating bigquery client", c.err),
                                          StatusBadRequest)
                     /\ pc' = "done"
                     /\ UNCHANGED <<client, where>>
                ELSE /\ client' = "open"
                     /\ where' = whereClause(variant, query)
                     /\ pc' = "query"
                     /\ UNCHANGED resp
  /\ UNCHANGED <<variant, query, verr, probe, handler, authMode, table, req, it, ret>>
  /\ UNCHANGED fvars
  /\ UNCHANGED cvars
  /\ UNCHANGED config
  /\ UNCHANGED rend

\* "ServerRange": Execute renders its query and creates the client itself.
ExecuteNewClient ==
  /\ pc = "newclient"
  /\ handler = "ServerRange"
  /\ where' = whereClause(variant, query)
  /\ hist' = Append(hist, "NewClient")
  /\ \E created \in BOOLEAN :
       /\ env' = [env EXCEPT !.client = IF created THEN "ok" ELSE "failed"]
       /\ IF created
            THEN /\ client' = "open"
                 /\ pc' = "query"
                 /\ UNCHANGED <<ret, resp>>
            ELSE /\ ret' = Execute(FALSE, FALSE, FALSE, 0)
                 /\ resp' = QueryResponse(ret')
                 /\ pc' = "done"
                 /\ UNCHANGED client
  /\ UNCHANGED <<variant, query, verr, probe, handler, authMode, table, req, it>>
  /\ UNCHANGED fvars
  /\ UNCHANGED cvars
  /\ UNCHANGED config
  /\ UNCHANGED rend

\* A Read that is tried once more when it fails.
ExecuteRead_Retry ==
  /\ pc = "query"
  /\ Len(hist) < 5
  /\ hist' = Append(hist, "Query")
  /\ \E t \in Tables, reached \in BOOLEAN :
       LET res == RunQuery(where, t)
       IN  /\ table' = t
           /\ IF reached /\ res.ok
                THEN /\ it' = res.count
                     /\ env' = [env EXCEPT !.query = "ok", !.count = res.count]
                     /\ pc' = "next"
                ELSE /\ env' = [env EXCEPT !.query = "failed"]
                     /\ pc' = "query"
                     /\ UNCHANGED it
  /\ UNCHANGED <<variant, query, verr, where, probe, handler, authMode, req, client, ret, resp>>
  /\ UNCHANGED fvars
  /\ UNCHANGED cvars
  /\ UNCHANGED config
  /\ UNCHANGED rend

\* client.Query(query).Read(ctx): the backend runs the statement on the table
\* it holds; the call fails when the statement is rejected, and may fail anyway.
ExecuteRead ==
  /\ pc = "query"
  /\ hist' = Append(hist, "Query")
  /\ \E t \in Tables, reached \in BOOLEAN :
       LET res == RunQuery(where, t)
       IN  /\ table' = t
           /\ IF reached /\ res.ok
                THEN /\ it' = res.count
                     /\ env' = [env EXCEPT !.query = "ok", !.count = res.count]
                     /\ pc' = "next"
                     /\ UNCHANGED <<ret, resp>>
                ELSE /\ env' = [env EXCEPT !.query = "failed"]
                     /\ ret' = Execute(TRUE, FALSE, FALSE, 0)
                     /\ resp' = QueryResponse(ret')
                     /\ pc' = "done"
                     /\ UNCHANGED it
  /\ UNCHANGED <<variant, query, verr, where, probe, handler, authMode, req, client>>
  /\ UNCHANGED fvars
  /\ UNCHANGED cvars
  /\ UNCHANGED config
  /\ UNCHANGED rend

\* it.Next(&result), then the return of Execute and the answer of Server.Query.
ExecuteNext ==
  /\ pc = "next"
  /\ hist' = Append(hist, "Next")
  /\ \E decoded \in BOOLEAN :
       /\ env' = [env EXCEPT !.next = IF decoded THEN "ok" ELSE "failed"]
       /\ ret' = Execute(TRUE, TRUE, decoded, it)
  /\ resp' = QueryResponse(ret')
  /\ pc' = "done"
  /\ UNCHANGED <<variant, query, verr, where, probe, handler, authMode, table, req, client, it>>
  /\ UNCHANGED fvars
  /\ UNCHANGED cvars
  /\ UNCHANGED config
  /\ UNCHANGED rend

\* The handler has returned: the request and everything made for it are gone,
\* and the server waits for the next request.
QueryEnd ==
  /\ pc = "done"
  /\ pc' = "idle"
  /\ query' = NoQuery
  /\ verr' = NoError
  /\ where' = <<>>
  /\ table' = {}
  /\ req' = NoRequest
  /\ client' = "none"
  /\ it' = 0
  /\ env' = NoEnv
  /\ ret' = NoRet
  /\ resp' = NoResp
  /\ hist' = <<>>
  /\ UNCHANGED <<variant, probe, handler, authMode>>
  /\ UNCHANGED fvars
  /\ UNCHANGED cvars
  /\ UNCHANGED config
  /\ UNCHANGED rend

Next ==
  \/ QueryBegin
  \/ NewBQClient
  \/ ExecuteNewClient
  \/ ExecuteRead
  \/ ExecuteNext
  \/ QueryEnd

Spec == Init /\ [][Next]_vars

(***************************************************************************)
(* Properties of the request handlers (checked under Spec).                *)
(***************************************************************************)
BackendCalls == {"NewClient", "Query", "Next"}

Count(seq, x) == Cardinality({i \in 1..Len(seq) : seq[i] = x})

Called(x) == Count(hist, x) > 0

BackendStepFailed == env.client = "failed" \/ env.query = "failed" \/ env.next = "failed"

BackendStepsOK == env.client = "ok" /\ env.query = "ok" /\ env.next = "ok"

\* C2: for a validated single-coordinate Query (R, A, C), when no backend step
\* fails, Execute returns true exactly when the table holds a row with
\* reference_name = R, reference_bases = A and start <= C < end.
C2_ExecuteTrueIffRowExists ==
  (pc = "done" /\ handler = "Server" /\ ret.set /\ ret.err = NoError)
  => (ret.value <=>
        \E r \in table :
           /\ r.reference_name = query.RefName
           /\ r.reference_bases = query.Allele
           /\ r.start <= query.Coord.v
           /\ query.Coord.v < r.end)

\* C6: a backend client is created and a query is issued only after
\* ValidateInput returned success for the request; a request that fails
\* parsing or validation ends with an error response and no backend call.
C6_ValidationPrecedesBackend ==
  /\ \A i \in 1..Len(hist) :
       hist[i] \in BackendCalls =>
         /\ \E j \in 1..(i - 1) : hist[j] = "ValidateInput ok"
         /\ parseInput(handler, req).err = NoError
         /\ ValidateInput(variant, parseInput(handler, req).query) = NoError
  /\ (/\ pc \notin {"idle", "new"}
      /\ \/ parseInput(handler, req).err /= NoError
         \/ ValidateInput(variant, parseInput(handler, req).query) /= NoError)
     => /\ pc = "done"
        /\ resp.set
        /\ resp.code >= StatusBadRequest
        /\ client = "none"
        /\ \A i \in 1..Len(hist) : hist[i] \notin BackendCalls

\* C6 witness: a query was issued, after ValidateInput had returned success.
C6_Witness ==
  /\ pc = "done"
  /\ Len(hist) >= 4
  /\ hist[2] = "ValidateInput ok"
  /\ hist[3] = "NewClient"
  /\ hist[4] = "Query"

\* C7: Execute returns (true, nil) exactly when client creation, the query and
\* the result read all succeed and the count is positive, (false, nil) exactly
\* when all succeed and the count is zero, and false with an error whenever
\* one of the three fails.
C7_ExecuteResult ==
  ret.set =>
    /\ (ret.value /\ ret.err = NoError) <=> (BackendStepsOK /\ env.count > 0)
    /\ (~ret.value /\ ret.err = NoError) <=> (BackendStepsOK /\ env.count = 0)
    /\ ret.err /= NoError <=> BackendStepFailed
    /\ ret.err /= NoError => ~ret.value
    /\ env.query = "ok" => env.count = RunQuery(where, table).count

\* C7 witness: Execute has returned true after three successful steps.
C7_Witness ==
  /\ ret.set
  /\ ret.value
  /\ ret.err = NoError
  /\ BackendStepsOK
  /\ handler = "ServerRange"

\* C8: one call of Execute sends at most one query: exactly one when the
\* client is available, none when its creation fails, and a failed query or
\* result read is not followed by another query for the same request.
C8_AtMostOneQuery ==
  /\ Count(hist, "Query") <= 1
  /\ Count(hist, "Next") <= 1
  /\ pc = "done" => (Count(hist, "Query") = 1 <=> env.client = "ok")
  /\ (pc = "done" /\ env.client /= "ok") => Count(hist, "Query") = 0

\* C8 witness: the one query of the request failed and the request is over.
C8_Witness ==
  /\ pc = "done"
  /\ env.query = "failed"
  /\ Count(hist, "Query") = 1
  /\ resp.set

\* C9: for a request that passed validation, every backend failure (client
\* not created, query rejected, result not read) is answered with a 5xx status.
C9_BackendFailureIsServerError ==
  (pc = "done" /\ Called("ValidateInput ok") /\ BackendStepFailed)
  => (resp.set /\ resp.code >= 500 /\ resp.code <= 599)

(***************************************************************************)
(* The handler that asks every DataSource concurrently: requestToSearch,   *)
(* one goroutine per DataSource running QueryDataSource, one goroutine     *)
(* closing the replies channel once the WaitGroup is done, and the handler *)
(* reading replies until a true one or the close.  The goroutines share    *)
(* the variantSearch value and the handler's err variable; each of their   *)
(* reads and writes of the two is a step of its own.                       *)
(***************************************************************************)
\* requestToSearch: the three form values, and End = Start + 1 in 64 bits.
requestToSearch(r) ==
  LET s0 == [VariantSetIds |-> <<>>, ReferenceName |-> r.chromosome,
             Start |-> r.coordinate, End |-> Empty, Allele |-> r.allele]
  IN  IF r.chromosome = <<>> \/ r.coordinate = Empty \/ r.allele = <<>>
        THEN [search |-> s0, err |-> NewError("Bad parameters")]
      ELSE IF ParseInt(r.coordinate).err /= NoError
        THEN [search |-> s0, err |-> ParseInt(r.coordinate).err]
      ELSE [search |-> [s0 EXCEPT !.End = IntText(Add64(ParseInt(r.coordinate).v, 1))],
            err |-> NoError]

\* A loop over results.Variants that does not look at the alternate bases.
VariantFound_AnyAllele(results, srch) ==
  \E v \in results :
     /\ v.ReferenceName = srch.ReferenceName
     /\ v.Start = srch.Start

\* The loop of QueryDataSource over results.Variants.
VariantFound(results, srch) ==
  \E v \in results :
     /\ v.ReferenceName = srch.ReferenceName
     /\ v.Start = srch.Start
     /\ \E alternateBase \in v.AlternateBases : alternateBase = srch.Allele

\* The form values a request may carry.
FanCoordTexts ==
  {Empty, Bad, IntText(0), IntText(MaxPos), IntText(MaxInt64), IntText(MaxInt64 + 1)}

FanRequests ==
  {[chromosome |-> c, coordinate |-> x, allele |-> a] :
     c \in {<<>>, <<"chr17">>}, x \in FanCoordTexts, a \in {<<>>, <<"A">>}}

\* The variants a DataSource may answer with.
FanVariants ==
  {[ReferenceName |-> <<"chr17">>, Start |-> IntText(p), AlternateBases |-> {a}] :
     p \in 0..MaxPos, a \in {<<"A">>, <<"T">>}}

FanResults == {vs \in SUBSET FanVariants : Cardinality(vs) <= 1}

InitFan ==
  /\ pc = "idle"
  /\ variant = "coord"
  /\ query = NoQuery
  /\ verr = NoError
  /\ where = <<>>
  /\ probe = NoProbe
  /\ handler = "handler"
  /\ authMode = "ServiceAuth"
  /\ table = {}
  /\ req = NoRequest
  /\ client = "none"
  /\ it = 0
  /\ env = NoEnv
  /\ ret = NoRet
  /\ resp = NoResp
  /\ hist = <<>>
  /\ rend = NoRend
  /\ config = Configured
  /\ FanIdle
  /\ CorsIdle

\* handler, up to its loop over replies: a request that requestToSearch
\* rejects is answered at once; for any other the channel is made and the
\* goroutines are started.
FanBegin ==
  /\ fpc = "idle"
  /\ \E r \in FanRequests :
       LET o == requestToSearch(r)
       IN  /\ freq' = r
           /\ serr' = o.err
           /\ IF o.err /= NoError
                THEN /\ fresp' = HttpError(<<"Bad parameters">>, StatusInternalServerError)
                     /\ fpc' = "done"
                     /\ UNCHANGED <<search, g, wg, replies, cpc>>
                ELSE /\ search' = o.search
                     /\ replies' = "open"
                     /\ wg' = Len(DataSources)
                     /\ g' = [s \in Sources |-> [NoGoroutine EXCEPT !.pc = "assign"]]
                     /\ cpc' = "wait"
                     /\ fpc' = "recv"
                     /\ UNCHANGED fresp
  /\ UNCHANGED <<respExists, flog, keyCache>>
  /\ UNCHANGED svars
  /\ UNCHANGED cvars

\* QueryDataSource: search.VariantSetIds = source.VariantSetIds
GAssign(s) ==
  /\ g[s].pc = "assign"
  /\ search' = [search EXCEPT !.VariantSetIds = DataSources[s].VariantSetIds]
  /\ g' = [g EXCEPT ![s].pc = "marshal"]
  /\ UNCHANGED <<fpc, freq, serr, wg, replies, cpc, respExists, fresp, flog, keyCache>>
  /\ UNCHANGED svars
  /\ UNCHANGED cvars

\* QueryDataSource: json.Marshal(search)
GMarshal(s) ==
  /\ g[s].pc = "marshal"
  /\ g' = [g EXCEPT ![s].pc = "key", ![s].body = search.VariantSetIds]
  /\ UNCHANGED <<fpc, freq, search, serr, wg, replies, cpc, respExists, fresp, flog, keyCache>>
  /\ UNCHANGED svars
  /\ UNCHANGED cvars

\* getAPIKey: a cached key is returned; else the file is read, which fails,
\* or gives an empty key (returned with a nil error and not cached), or
\* gives a key, which is cached.
GKey(s) ==
  /\ g[s].pc = "key"
  /\ LET f == DataSources[s].APIKeyFileName
     IN  IF f \in keyCache
           THEN /\ g' = [g EXCEPT ![s].pc = "do", ![s].key = <<"key">>]
                /\ UNCHANGED keyCache
           ELSE \E read \in {"error", "empty", "key"} :
                  CASE read = "error" ->
                         /\ g' = [g EXCEPT ![s].pc = "seterr",
                                           ![s].ret = NewError("reading key file")]
                         /\ UNCHANGED keyCache
                    [] read = "empty" ->
                         /\ g' = [g EXCEPT ![s].pc = "do", ![s].key = <<>>]
                         /\ UNCHANGED keyCache
                    [] read = "key" ->
                         /\ g' = [g EXCEPT ![s].pc = "do", ![s].key = <<"key">>]
                         /\ keyCache' = keyCache \cup {f}
  /\ UNCHANGED <<fpc, freq, search, serr, wg, replies, cpc, respExists, fresp, flog>>
  /\ UNCHANGED svars
  /\ UNCHANGED cvars

\* QueryDataSource from http.NewRequest to the loop over the variants: the
\* call fails, or the DataSource answers with variants.
GDo(s) ==
  /\ g[s].pc = "do"
  /\ \/ g' = [g EXCEPT ![s].pc = "seterr", ![s].ret = NewError("fetching variants")]
     \/ \E results \in FanResults :
          g' = [g EXCEPT ![s].pc = "send", ![s].results = results,
                         ![s].found = VariantFound(results, search)]
  /\ UNCHANGED <<fpc, freq, search, serr, wg, replies, cpc, respExists, fresp, flog, keyCache>>
  /\ UNCHANGED svars
  /\ UNCHANGED cvars

\* reply <- found, taken by the handler's loop: a true reply ends the loop.
GSend(s) ==
  /\ g[s].pc = "send"
  /\ replies = "open"
  /\ fpc = "recv"
  /\ g' = [g EXCEPT ![s].pc = "seterr", ![s].ret = NoError]
  /\ IF g[s].found
       THEN /\ respExists' = TRUE
            /\ fpc' = "encode"
       ELSE UNCHANGED <<respExists, fpc>>
  /\ UNCHANGED <<freq, search, serr, wg, replies, cpc, fresp, flog, keyCache>>
  /\ UNCHANGED svars
  /\ UNCHANGED cvars

\* The goroutine: err = QueryDataSource(c, s, search, replies)
GSetErr(s) ==
  /\ g[s].pc = "seterr"
  /\ serr' = g[s].ret
  /\ g' = [g EXCEPT ![s].pc = "checkerr"]
  /\ UNCHANGED <<fpc, freq, search, wg, replies, cpc, respExists, fresp, flog, keyCache>>
  /\ UNCHANGED svars
  /\ UNCHANGED cvars

\* The goroutine: if err != nil { log.Errorf(...) }; wg.Done()
GDone(s) ==
  /\ g[s].pc = "checkerr"
  /\ flog' = IF serr /= NoError THEN flog \cup {<<s, serr>>} ELSE flog
  /\ wg' = wg - 1
  /\ g' = [g EXCEPT ![s].pc = "done"]
  /\ UNCHANGED <<fpc, freq, search, serr, replies, cpc, respExists, fresp, keyCache>>
  /\ UNCHANGED svars
  /\ UNCHANGED cvars

\* The closing goroutine: wg.Wait(); close(replies)
CloseReplies ==
  /\ cpc = "wait"
  /\ wg = 0
  /\ replies' = "closed"
  /\ cpc' = "done"
  /\ UNCHANGED <<fpc, freq, search, serr, g, wg, respExists, fresp, flog, keyCache>>
  /\ UNCHANGED svars
  /\ UNCHANGED cvars

\* The handler's loop finds the channel closed.
RecvClosed ==
  /\ fpc = "recv"
  /\ replies = "closed"
  /\ fpc' = "encode"
  /\ UNCHANGED <<freq, search, serr, g, wg, replies, cpc, respExists, fresp, flog, keyCache>>
  /\ UNCHANGED svars
  /\ UNCHANGED cvars

\* err = enc.Encode(resp): the answer is written, or the write fails.
Encode ==
  /\ fpc = "encode"
  /\ \/ /\ serr' = NoError
        /\ fresp' = writeResponse(respExists)
     \/ /\ serr' = NewError("writing response")
        /\ UNCHANGED fresp
  /\ fpc' = "check"
  /\ UNCHANGED <<freq, search, g, wg, replies, cpc, respExists, flog, keyCache>>
  /\ UNCHANGED svars
  /\ UNCHANGED cvars

\* if err != nil { http.Error(w, "Failed writing response", 500) }: after a
\* written answer the status stays and the text follows the answer.
CheckEncode ==
  /\ fpc = "check"
  /\ fresp' = IF serr = NoError THEN fresp
              ELSE IF fresp.set
                THEN [fresp EXCEPT !.body = fresp.body \o <<"Failed writing response">>]
              ELSE HttpError(<<"Failed writing response">>, StatusInternalServerError)
  /\ fpc' = "done"
  /\ UNCHANGED <<freq, search, serr, g, wg, replies, cpc, respExists, flog, keyCache>>
  /\ UNCHANGED svars
  /\ UNCHANGED cvars

\* The handler has returned and none of its goroutines can take a step any
\* more: the server waits for the next request, with the keys it cached.
FanEnd ==
  /\ fpc = "done"
  /\ \A s \in Sources : g[s].pc \in {"none", "send", "done"}
  /\ cpc \in {"none", "done"} \/ wg > 0
  /\ fpc' = "idle"
  /\ freq' = NoFormRequest
  /\ search' = NoSearch
  /\ serr' = NoError
  /\ g' = [s \in Sources |-> NoGoroutine]
  /\ wg' = 0
  /\ replies' = "none"
  /\ cpc' = "none"
  /\ respExists' = FALSE
  /\ fresp' = NoResp
  /\ flog' = {}
  /\ UNCHANGED keyCache
  /\ UNCHANGED svars
  /\ UNCHANGED cvars

NextFan ==
  \/ FanBegin
  \/ \E s \in Sources : GAssign(s)
  \/ \E s \in Sources : GMarshal(s)
  \/ \E s \in Sources : GKey(s)
  \/ \E s \in Sources : GDo(s)
  \/ \E s \in Sources : GSend(s)
  \/ \E s \in Sources : GSetErr(s)
  \/ \E s \in Sources : GDone(s)
  \/ CloseReplies
  \/ RecvClosed
  \/ Encode
  \/ CheckEncode
  \/ FanEnd

SpecFan == InitFan /\ [][NextFan]_vars

\* Every goroutine that can take a step takes it in the end, and every call
\* to a DataSource returns; the handler itself keeps running.
FairFan ==
  /\ \A s \in Sources :
       /\ WF_vars(GAssign(s))
       /\ WF_vars(GMarshal(s))
       /\ WF_vars(GKey(s))
       /\ WF_vars(GDo(s))
       /\ WF_vars(GSend(s))
       /\ WF_vars(GSetErr(s))
       /\ WF_vars(GDone(s))
  /\ WF_vars(CloseReplies)
  /\ WF_vars(RecvClosed)
  /\ WF_vars(Encode)
  /\ WF_vars(CheckEncode)

SpecFanFair == SpecFan /\ FairFan

(***************************************************************************)
(* Properties of every handler (checked under SpecFan and Spec).           *)
(***************************************************************************)
\* A required parameter of the request is missing.
MissingParameter(chromosome, allele, coordinate) ==
  chromosome = <<>> \/ allele = <<>> \/ coordinate = Empty

ClientErrorClass(r) == r.set /\ r.code >= 400 /\ r.code <= 499

\* C10: in every handler, a request with a required parameter missing is
\* answered with a 4xx status, never with a 5xx status or an exists answer.
C10_InvalidInputIsClientError ==
  /\ (fpc = "done" /\ MissingParameter(freq.chromosome, freq.allele, freq.coordinate))
       => ClientErrorClass(fresp)
  /\ (pc = "done" /\ handler = "Server"
        /\ MissingParameter(req.chromosome, req.allele, req.coordinate))
       => ClientErrorClass(resp)
  /\ (pc = "done" /\ handler = "ServerRange"
        /\ MissingParameter(req.chromosome, req.allele, IntText(0)))
       => ClientErrorClass(resp)

\* A DataSource query of the request has failed.
DataSourceFailed(s) == g[s].ret /= NoError

\* The answer that says no variant exists.
AnswersNotFound(r) == r.set /\ r.code = StatusOK /\ ~r.exists

\* C11: no error is swallowed: when a backend interaction made for a request
\* has failed, the answer to the request is not the successful
\* "exists = false" answer.
C11_NoErrorSwallowed ==
  /\ (fpc = "done" /\ \E s \in Sources : DataSourceFailed(s)) => ~AnswersNotFound(fresp)
  /\ (pc = "done" /\ BackendStepFailed) => ~AnswersNotFound(resp)

\* C12: a backend client acquired for a request is released before the
\* handling of the request ends: once the response is written, after a
\* successful answer, a failed query or a failed result read, no client of
\* the request is still open.
C12_ClientReleased ==
  (pc = "done" /\ resp.set) => client /= "open"

(***************************************************************************)
(* Properties of the rendered coordinate conditions (checked under         *)
(* SpecQuery).                                                             *)
(***************************************************************************)
\* The row probed has the reference name and the bases of the Query.
ProbeRowOfQuery ==
  /\ probe.row.reference_name = query.RefName
  /\ probe.row.reference_bases = query.Allele

C14_PreciseEquality ==
  (/\ pc = "matched"
   /\ variant = "range"
   /\ query.Start.set
   /\ ~ImpreciseFieldSet(query)
   /\ ProbeRowOfQuery)
  => /\ probe.ok
     /\ probe.count > 0 <=>
          /\ probe.row.start = query.Start.v
          /\ query.End.set => probe.row.end = query.End.v

\* C14 witness: start and end are both set, the row has that start and
\* another end, and it did not match.
C14_Witness ==
  /\ pc = "matched"
  /\ variant = "range"
  /\ query.Start.set
  /\ query.End.set
  /\ ~ImpreciseFieldSet(query)
  /\ ProbeRowOfQuery
  /\ probe.row.start = query.Start.v
  /\ probe.row.end /= query.End.v
  /\ probe.ok
  /\ probe.count = 0

\* C15: in the variant with start_position / end_position conditions every
\* range bound constrains the predicate with its own value: a row matches an
\* imprecise Query exactly when StartMin <= start <= StartMax and
\* EndMin <= end <= EndMax.
C15_PosRangeUsesOwnBounds ==
  (/\ pc = "matched"
   /\ variant = "pos"
   /\ ImpreciseComplete(query)
   /\ ~PreciseFieldSet(query)
   /\ ProbeRowOfQuery)
  => /\ probe.ok
     /\ probe.count > 0 <=>
          /\ query.StartMin.v <= probe.row.start
          /\ probe.row.start <= query.StartMax.v
          /\ query.EndMin.v <= probe.row.end
          /\ probe.row.end <= query.EndMax.v

\* C16: the reference name and the allele reach the backend as data only:
\* whatever characters they hold, the statement is a well-formed predicate
\* and every row it matches has that reference_name and those
\* reference_bases.
C16_ValuesComparedAsData ==
  (pc = "matched" /\ variant = "coord")
  => /\ probe.ok
     /\ probe.count > 0 =>
          /\ probe.row.reference_name = query.RefName
          /\ probe.row.reference_bases = query.Allele

\* C17: in the single-coordinate variant ValidateInput succeeds exactly when
\* the reference name and the allele are not empty and the coordinate is
\* present; an absent coordinate is rejected and a present one is accepted
\* whatever its value (0 and negative values included).
C17_CoordValidation ==
  (pc /= "new" /\ pc /= "idle" /\ variant = "coord" /\ handler = "none")
  => /\ verr = NoError <=>
          (query.RefName /= <<>> /\ query.Allele /= <<>> /\ query.Coord.set)
     /\ (query.RefName /= <<>> /\ query.Allele /= <<>> /\ ~query.Coord.set)
          => verr = NewError("missing coordinate")

\* C17 witness: a Query with the coordinate 0 or below was validated and
\* accepted.
C17_Witness ==
  /\ pc = "validated"
  /\ variant = "coord"
  /\ handler = "none"
  /\ query.Coord.set
  /\ query.Coord.v <= 0
  /\ verr = NoError

(***************************************************************************)
(* Properties of the authentication of a request (checked under Spec).     *)
(***************************************************************************)
\* The header text is Bearer, one space and a token that is not empty.
WellFormedBearer(h) ==
  /\ Len(h) >= 3
  /\ h[1] = "Bearer"
  /\ h[2] = " "
  /\ \A i \in 3..Len(h) : h[i] /= " "

\* C18: in user-authentication mode a backend client is created and a query
\* issued only for a request whose Authorization header is "Bearer <token>"
\* with a token that is not empty; any other header (none, another scheme,
\* an empty token, more fields) is answered with "missing or invalid
\* authentication token" and no backend call is made.
C18_BearerTokenRequired ==
  (handler = "Server" /\ authMode = "UserAuth" /\ Called("ValidateInput ok"))
  => /\ (Called("NewClient") \/ Called("Query")) => WellFormedBearer(req.Authorization)
     /\ (pc = "done" /\ ~WellFormedBearer(req.Authorization))
          => /\ resp.set
             /\ \E i \in 1..Len(resp.body) :
                  resp.body[i] = "missing or invalid authentication token"
             /\ ~Called("Query")

(***************************************************************************)
(* Properties of the work and the state of a request (checked under        *)
(* SpecFan).                                                               *)
(***************************************************************************)
\* A goroutine started for the request has not finished.
GoroutinePending == (\E s \in Sources : g[s].pc \notin {"none", "done"}) \/ cpc = "wait"

\* C19: no handler spawns background work: when the response of a request
\* is written, nothing started for the request is still running or pending.
C19_NoBackgroundWork ==
  fresp.set => ~GoroutinePending

\* C20: handling a request writes no state that another request reads: what
\* outlives a request is as the start of the process left it.
C20_NoStateAcrossRequests ==
  keyCache = {}

(***************************************************************************)
(* Properties of the rendering as a function (checked under SpecQuery).    *)
(***************************************************************************)
\* The first position of a token in the rendered text, or 0.
FirstIndex(tok) ==
  LET at == {i \in 1..Len(where) : where[i] = tok}
  IN  IF at = {} THEN 0 ELSE CHOOSE i \in at : \A j \in at : i <= j

\* The positions of the rendered text that name a coordinate column.
CoordinatePositions == {i \in 1..Len(where) : where[i].k = "sym" /\ where[i].s \in IntColumns}

validateServerConfig(c) ==
  IF c.projectID = <<>> THEN NewError("GOOGLE_CLOUD_PROJECT must be specified")
  ELSE IF c.tableId = <<>> THEN NewError("GOOGLE_BIGQUERY_TABLE must be specified")
  ELSE NoError

\* parseInput of the handler: the test made after reading the allele is
\* made on refName.
parseInputTuple(r) ==
  LET refName == r.chromosome
      allele == r.allele
      coord == ParseInt(r.coordinate)
      none == [refName |-> <<>>, allele |-> <<>>, coord |-> 0]
  IN  IF refName = <<>>
        THEN none @@ [err |-> NewError("missing chromosome name")]
      ELSE IF refName = <<>>
        THEN none @@ [err |-> NewError("missing allele")]
      ELSE IF coord.err /= NoError
        THEN none @@ [err |-> Errorf("parsing coordinate", coord.err)]
      ELSE [refName |-> refName, allele |-> allele, coord |-> coord.v, err |-> NoError]

\* The WHERE text of genomeExists: reference_name='%s' AND v.start <= %d AND
\* %d < v.end AND reference_bases='%s' with refName, coord, coord+1, allele.
genomeExistsWhere(refName, allele, coord) ==
  Join(<<SprintfEq("reference_name", refName), coordClause(coord),
         SprintfEq("reference_bases", allele)>>)

Configs ==
  {[projectID |-> p, tableId |-> t] : p \in {<<>>, <<"project">>}, t \in {<<>>, <<"table">>}}

RequestsTuple ==
  {MkRequest("GET", c, a, x, Empty, Empty, Empty, Empty, Empty, Empty, TRUE, <<>>) :
     c \in {<<>>, <<"chr17">>}, a \in Alleles, x \in CoordTexts}

InitTuple ==
  /\ pc = "idle"
  /\ variant = "coord"
  /\ query = NoQuery
  /\ verr = NoError
  /\ where = <<>>
  /\ probe = NoProbe
  /\ handler = "query.handler"
  /\ authMode = "ServiceAuth"
  /\ table = {}
  /\ req = NoRequest
  /\ client = "none"
  /\ it = 0
  /\ env = NoEnv
  /\ ret = NoRet
  /\ resp = NoResp
  /\ hist = <<>>
  /\ rend = NoRend
  /\ config \in Configs
  /\ FanIdle
  /\ CorsIdle

\* handler up to genomeExists: validateServerConfig, parseInput, and the
\* statement genomeExists formats.
TupleBegin ==
  /\ pc = "idle"
  /\ \E r \in RequestsTuple :
       LET c == validateServerConfig(config)
           p == parseInputTuple(r)
       IN  /\ req' = r
           /\ IF c /= NoError
                THEN /\ resp' = HttpError(Errorf("validating server configuration", c),
                                          StatusInternalServerError)
                     /\ hist' = <<"validateServerConfig failed">>
                     /\ pc' = "done"
                     /\ UNCHANGED <<query, where>>
              ELSE IF p.err /= NoError
                THEN /\ resp' = HttpError(Errorf("validating input", p.err), StatusBadRequest)
                     /\ hist' = <<"parseInput failed">>
                     /\ pc' = "done"
                     /\ UNCHANGED <<query, where>>
              ELSE /\ query' = MkQuery(p.refName, p.allele, Ptr(p.coord),
                                       Nil, Nil, Nil, Nil, Nil, Nil)
                   /\ where' = genomeExistsWhere(p.refName, p.allele, p.coord)
                   /\ hist' = <<"parseInput ok">>
                   /\ pc' = "newclient"
                   /\ UNCHANGED resp
  /\ UNCHANGED <<variant, verr, probe, handler, authMode, table, client, it, env, ret>>
  /\ UNCHANGED <<rend, config>>
  /\ UNCHANGED fvars
  /\ UNCHANGED cvars

\* genomeExists: bigquery.NewClient(ctx, config.projectID)
TupleNewClient ==
  /\ pc = "newclient"
  /\ hist' = Append(hist, "NewClient")
  /\ \E created \in BOOLEAN :
       /\ env' = [env EXCEPT !.client = IF created THEN "ok" ELSE "failed"]
       /\ IF created
            THEN /\ client' = "open"
                 /\ pc' = "query"
                 /\ UNCHANGED <<ret, resp>>
            ELSE /\ ret' = Execute(FALSE, FALSE, FALSE, 0)
                 /\ resp' = QueryResponse(ret')
                 /\ pc' = "done"
                 /\ UNCHANGED client
  /\ UNCHANGED <<variant, query, verr, where, probe, handler, authMode, table, req, it>>
  /\ UNCHANGED <<rend, config>>
  /\ UNCHANGED fvars
  /\ UNCHANGED cvars

\* genomeExists: it.Next(&result); then the handler's writeResponse, whose
\* failure is answered too.
TupleNext ==
  /\ pc = "next"
  /\ hist' = Append(hist, "Next")
  /\ \E decoded \in BOOLEAN, encoded \in BOOLEAN :
       /\ env' = [env EXCEPT !.next = IF decoded THEN "ok" ELSE "failed"]
       /\ ret' = Execute(TRUE, TRUE, decoded, it)
       /\ resp' = IF ret'.err /= NoError \/ encoded
                    THEN QueryResponse(ret')
                    ELSE HttpError(<<"validating server configuration", "serializing response">>,
                                   StatusInternalServerError)
  /\ pc' = "done"
  /\ UNCHANGED <<variant, query, verr, where, probe, handler, authMode, table, req, client, it>>
  /\ UNCHANGED <<rend, config>>
  /\ UNCHANGED fvars
  /\ UNCHANGED cvars

NextTuple ==
  \/ TupleBegin
  \/ TupleNewClient
  \/ ExecuteRead
  \/ TupleNext
  \/ QueryEnd

SpecTuple == InitTuple /\ [][NextTuple]_vars

(***************************************************************************)
(* Properties of the /query handler (checked under SpecTuple).             *)
(***************************************************************************)
\* C22: in the handler that parses (refName, allele, coord) itself a request
\* with an empty allele is rejected by parseInput with a "missing allele"
\* client error and no backend call is made for it, as for a missing
\* chromosome.
C22_MissingAlleleRejected ==
  (/\ handler = "query.handler"
   /\ pc /= "idle"
   /\ validateServerConfig(config) = NoError
   /\ req.chromosome /= <<>>
   /\ req.allele = <<>>)
  => /\ pc = "done"
     /\ ClientErrorClass(resp)
     /\ \E i \in 1..Len(resp.body) : resp.body[i] = "missing allele"
     /\ \A i \in 1..Len(hist) : hist[i] \notin BackendCalls

\* C23: in the multi-mode variant no coordinate field of an accepted Query is
\* ignored: an accepted Query that differs from the rendered one in a
\* coordinate field the rendered one sets never renders the same predicate.
C23_NoFieldIgnored ==
  (pc = "rendered" /\ variant = "range" /\ handler = "none")
  => \A q2 \in QueriesMulti :
       (/\ ValidateInputRange(q2) = NoError
        /\ \E f \in PointerFields : query[f].set /\ q2[f] /= query[f])
       => whereClauseRange(q2) /= where

(***************************************************************************)
(* Properties of the concurrent handler (checked under SpecFan).           *)
(***************************************************************************)
\* The query of DataSource s completed without error and its answer holds a
\* variant with the reference name, the start and the allele of the request.
FoundRequested(s) ==
  /\ g[s].pc \in {"seterr", "checkerr", "done"}
  /\ g[s].ret = NoError
  /\ \E v \in g[s].results :
       /\ v.ReferenceName = freq.chromosome
       /\ v.Start = freq.coordinate
       /\ freq.allele \in v.AlternateBases

\* The query of DataSource s is over and failed or found nothing.
FoundNothing(s) == g[s].pc = "done" /\ ~FoundRequested(s)

\* The handler has written its exists answer.
Answered == fpc \in {"check", "done"} /\ fresp.set /\ fresp.code = StatusOK

\* C24: under every interleaving of the goroutines the answer has
\* Exists = true exactly when a DataSource query completed without error and
\* found the variant, and Exists = false exactly when every DataSource query
\* failed or found nothing.
C24_ExistsIffSomeSourceFound ==
  Answered
  => /\ fresp.exists <=> \E s \in Sources : FoundRequested(s)
     /\ ~fresp.exists <=> \A s \in Sources : FoundNothing(s)

\* C24 witness: the answer is true, one DataSource found the variant and
\* the query of the other failed.
C24_Witness ==
  /\ Answered
  /\ fresp.exists
  /\ \E s \in Sources : FoundRequested(s)
  /\ \E s \in Sources : g[s].pc = "done" /\ g[s].ret /= NoError

\* The handler has left its loop over replies.
LoopLeft == fpc \in {"encode", "check", "done"}

\* C25: every goroutine started for a request terminates: once the handler
\* has left its loop, also after a true reply, no goroutine is left in
\* reply <- with nobody to receive (which would leave the closing goroutine
\* in wg.Wait() for ever as well).
C25_NoGoroutineBlockedForever ==
  LoopLeft => \A s \in Sources : g[s].pc /= "send"

\* C26: the body sent to a DataSource carries the VariantSetIds of that
\* DataSource, under every interleaving of the goroutines that share the
\* variantSearch value.
C26_OwnVariantSetIds ==
  \A s \in Sources :
     g[s].pc = "send" => g[s].body = DataSources[s].VariantSetIds

\* C27: "Failed writing response" is reported only when encoding failed, and
\* a goroutine logs a failure only for its own DataSource query having
\* failed, with the error of that query.
C27_ErrNotShared ==
  /\ (fresp.set /\ fresp.code = StatusOK) => fresp.body = <<>>
  /\ \A l \in flog : g[l[1]].ret /= NoError /\ l[2] = g[l[1]].ret

\* A goroutine of the request has still to send or to give up.
BeforeReply(s) == g[s].pc \in {"assign", "marshal", "key", "do", "send"}

\* C28: when every DataSource query returns, the handler writes a response
\* for every valid request: it does not stay in its loop over replies for
\* ever; the channel is closed by the closing goroutine alone, once, and
\* only when no goroutine has still to send on it.
C28_HandlerAnswers ==
  /\ [](replies = "closed" => (cpc = "done" /\ \A s \in Sources : ~BeforeReply(s)))
  /\ [](cpc = "done" => replies = "closed")
  /\ (fpc = "recv") ~> (fpc = "done" /\ fresp.set)

\* The two numbers written into the single-coordinate condition.
CoordBounds == SelectSeq(where, LAMBDA t : t.k = "num")

\* C29: for every coordinate C that passed validation the second number of
\* the single-coordinate condition is C + 1, greater than C.
C29_SecondBoundIsSuccessor ==
  (handler = "none" /\ variant = "coord" /\ pc \in {"rendered", "matched"})
  => /\ Len(CoordBounds) = 2
     /\ CoordBounds[1].n = query.Coord.v
     /\ CoordBounds[2].n = query.Coord.v + 1
     /\ CoordBounds[2].n > CoordBounds[1].n

(***************************************************************************)
(* The server whose Export wraps About and Query in forwardOrigin: the     *)
(* wrapper forwards the Origin of a request and answers a preflight        *)
(* itself.  Query parses the coordinates of the multi-mode Query and       *)
(* creates its client by the authentication mode ("ServerCORS").           *)
(***************************************************************************)
Routes == {"/", "/query"}

\* Export: mux.Handle("/", &forwardOrigin{server.About, []string{"GET"}}) and
\* mux.Handle("/query", &forwardOrigin{server.Query, []string{"GET", "POST"}})
Export ==
  [rt \in Routes |->
     IF rt = "/" THEN [handler |-> "About", methods |-> <<<<"GET">>>>]
     ELSE [handler |-> "Query", methods |-> <<<<"GET">>, <<"POST">>>>]]

\* strings.Join(elems, sep)
RECURSIVE StringsJoin(_, _)
StringsJoin(elems, sep) ==
  IF elems = <<>> THEN <<>>
  ELSE IF Len(elems) = 1 THEN elems[1]
  ELSE elems[1] \o sep \o StringsJoin(Tail(elems), sep)

\* A wrapper that answers a preflight and calls the wrapped handler all the
\* same.
forwardOrigin_NoReturnOnOptions(f, o, method) ==
  [header |-> IF o = <<>> THEN NoHeader
              ELSE [AllowOrigin |-> o,
                    AllowMethods |-> IF method = "OPTIONS"
                                       THEN StringsJoin(f.methods, <<",">>) ELSE <<>>,
                    AllowHeaders |-> IF method = "OPTIONS"
                                       THEN <<"Authorization">> ELSE <<>>],
   call |-> TRUE]

\* forwardOrigin.ServeHTTP up to f.handler(w, req): the headers it sets and
\* whether it calls the wrapped handler.
forwardOrigin(f, o, method) ==
  IF o /= <<>>
    THEN IF method = "OPTIONS"
           THEN [header |-> [AllowOrigin |-> o,
                             AllowMethods |-> StringsJoin(f.methods, <<",">>),
                             AllowHeaders |-> <<"Authorization">>],
                 call |-> FALSE]
           ELSE [header |-> [NoHeader EXCEPT !.AllowOrigin = o], call |-> TRUE]
    ELSE [header |-> NoHeader, call |-> TRUE]

\* Server.About: any method but GET is refused, else the document is written.
About(r) ==
  IF r.Method /= "GET" THEN HttpError(MethodNotSupported, StatusBadRequest)
  ELSE [set |-> TRUE, code |-> StatusOK, exists |-> FALSE, body |-> <<"about">>]

Origins == {<<>>, <<"https://example.org">>}

CorsMethods == Methods \cup {"OPTIONS"}

CorsRequests(mode) ==
  {[r EXCEPT !.Method = m, !.Authorization = a] :
     r \in {x \in RequestsRange : x.Method = "GET" /\ x.bodyOK},
     m \in CorsMethods,
     a \in (IF mode = "UserAuth" THEN {<<>>, <<"Bearer", " ", "token">>} ELSE {<<>>})}

InitCors ==
  /\ handler = "ServerCORS"
  /\ authMode \in {"ServiceAuth", "UserAuth"}
  /\ variant = VariantOf(handler)
  /\ pc = "idle"
  /\ query = NoQuery
  /\ verr = NoError
  /\ where = <<>>
  /\ probe = NoProbe
  /\ table = {}
  /\ req = NoRequest
  /\ client = "none"
  /\ it = 0
  /\ env = NoEnv
  /\ ret = NoRet
  /\ resp = NoResp
  /\ hist = <<>>
  /\ rend = NoRend
  /\ config = Configured
  /\ FanIdle
  /\ CorsIdle

\* A request arrives at a route: forwardOrigin.ServeHTTP sets its headers
\* and, unless it answered a preflight, calls the wrapped handler once: About
\* runs to its end, Query up to its first backend call.
ServeHTTP ==
  /\ pc = "idle"
  /\ \E rt \in Routes, o \in Origins, r \in CorsRequests(authMode) :
       LET w == forwardOrigin(Export[rt], o, r.Method)
           returned == [pc |-> "done", query |-> NoQuery, verr |-> NoError,
                        resp |-> NoResp, hist |-> <<>>]
           out == IF ~w.call THEN returned
                  ELSE IF Export[rt].handler = "About"
                    THEN [returned EXCEPT !.resp = About(r)]
                  ELSE QueryEntry(handler, r)
       IN  /\ route' = rt
           /\ origin' = o
           /\ header' = w.header
           /\ invoked' = IF w.call THEN 1 ELSE 0
           /\ req' = r
           /\ pc' = out.pc
           /\ query' = out.query
           /\ verr' = out.verr
           /\ resp' = out.resp
           /\ hist' = out.hist
  /\ UNCHANGED <<variant, where, probe, handler, authMode, table, client, it, env, ret>>
  /\ UNCHANGED fvars
  /\ UNCHANGED config
  /\ UNCHANGED rend

NextCors ==
  \/ ServeHTTP
  \/ NewBQClient
  \/ ExecuteRead
  \/ ExecuteNext
  \/ QueryEnd

SpecCors == InitCors /\ [][NextCors]_vars

\* The request being served, or just served, is a preflight.
Preflight == origin /= <<>> /\ req.Method = "OPTIONS"

\* C30: a request with a non-empty Origin gets Access-Control-Allow-Origin
\* set to that origin; a preflight is answered with the methods of its route
\* and the header Authorization, and the wrapped handler is not called for
\* it: nothing is parsed, validated or asked of the backend; for every other
\* request the wrapped handler is called exactly once.
C30_PreflightAnsweredByWrapper ==
  pc /= "idle"
  => /\ origin /= <<>> => header.AllowOrigin = origin
     /\ Preflight
        => /\ header.AllowMethods =
                (IF route = "/" THEN <<"GET">> ELSE <<"GET", ",", "POST">>)
           /\ header.AllowHeaders = <<"Authorization">>
           /\ invoked = 0
           /\ hist = <<>>
           /\ query = NoQuery
           /\ ~resp.set
     /\ ~Preflight => invoked = 1

\* C30 witness: a preflight for /query was answered.
C30_Witness ==
  /\ pc = "done"
  /\ route = "/query"
  /\ Preflight
  /\ header.AllowOrigin = origin
  /\ invoked = 0

====
